---- MODULE Spec2Model ----
(***************************************************************************)
(* Minirechner 2i emulator: the 8 bit ALU (Alu.cpp), the next-address unit *)
(* and the single step microinstruction interpreter (SoC.cpp, SoC.h).      *)
(* A std::bitset<n> is modelled as the natural number 0 .. 2^n - 1 it      *)
(* holds; bit i has place value 2^i (bitset::operator[]).                  *)
(***************************************************************************)
EXTENDS Integers, Sequences, FiniteSets, TLC

(***************************************************************************)
(* Sizes of the machine (SoC.h)                                            *)
(***************************************************************************)
ramSize == 252
instructionRamSize == 32
registerCount == 8
inputRegisterCount == 4
outputRegisterCount == 2

(***************************************************************************)
(* Bounds of the exploration                                               *)
(***************************************************************************)
MaxSets == 2
MaxRuns == 2
MaxPokes == 1
MaxCalls == 4

(***************************************************************************)
(* std::bitset primitives                                                  *)
(***************************************************************************)
\* bitset::operator[] (read): bit i of x
Bit(x, i) == (x \div (2 ^ i)) % 2

\* bitset::reference::operator= : bit i of x becomes v (v in {0, 1})
SetBit(x, i, v) == x - Bit(x, i) * (2 ^ i) + v * (2 ^ i)

\* ToBitset8 that keeps every bit of the unsigned long
ToBitset8_AllBits(n) == n

\* bitset<8>(unsigned long): only the low 8 bits are kept
ToBitset8(n) == n % 256

\* operator| on two bitset<8>
BitOr8(a, b) ==
    LET RECURSIVE or(_)
        or(i) == IF i = 8 THEN 0
                 ELSE (IF Bit(a, i) = 1 \/ Bit(b, i) = 1 THEN 2 ^ i ELSE 0) + or(i + 1)
    IN  or(0)

\* operator~ on a bitset<8>
BitNot8(a) == 255 - a

\* operator~ on an int (a bool operand is promoted to int first)
IntNot(n) == (-n) - 1

\* conversion of an int to bool, as done when an int is assigned to a
\* bitset::reference: every nonzero value is true
IntToBool(n) == IF n # 0 THEN 1 ELSE 0

\* a C++ bool as the int 0 or 1
BoolToInt(p) == IF p THEN 1 ELSE 0

\* SoC::substr<lengthNew>(bitset<length> b, start)
substr(lengthNew, length, b, start) ==
    LET RECURSIVE copy(_)
        copy(i) == IF i < lengthNew /\ i + start < length
                   THEN Bit(b, i + start) * (2 ^ i) + copy(i + 1)
                   ELSE 0
    IN  copy(0)

(***************************************************************************)
(* Alu::calculate, one operator per group of cases.  Each returns the      *)
(* result f and the flags triple after the case ran (flags[0] only).       *)
(***************************************************************************)
\* AluLogic with operand b left out of the NOR of case 2
AluLogic_NorWithoutB(function, a, b, flags) ==
    [f     |-> CASE function = 0 -> a
                 [] function = 1 -> b
                 [] function = 2 -> BitNot8(a)
                 [] function = 3 -> BitNot8(BitOr8(a, b)),
     flags |-> SetBit(flags, 0, 0)]

\* cases 0 .. 3: F = A, F = B, F = A NOR B, "F = 0"
AluLogic(function, a, b, flags) ==
    [f     |-> CASE function = 0 -> a
                 [] function = 1 -> b
                 [] function = 2 -> BitNot8(BitOr8(a, b))
                 [] function = 3 -> BitNot8(BitOr8(a, b)),
     flags |-> SetBit(flags, 0, 0)]

\* AluAdd with the carry-in of case 6 left out
AluAdd_NoCarryIn(function, a, b, flags) ==
    LET tmp == a + b
    IN  [f     |-> ToBitset8(tmp),
         flags |-> SetBit(flags, 0, BoolToInt(tmp > 255))]

\* cases 4 and 6: F = A + B, F = A + B + Cin
AluAdd(function, a, b, flags) ==
    LET tmp == IF function = 4 THEN a + b
               ELSE a + b + (IF Bit(flags, 0) = 1 THEN 1 ELSE 0)
    IN  [f     |-> ToBitset8(tmp),
         flags |-> SetBit(flags, 0, BoolToInt(tmp > 255))]

\* cases 5 and 7: F = A + B + 1, F = A + B + ~Cin, "Ca inverted"
AluAddInv(function, a, b, flags) ==
    LET tmp == IF function = 5 THEN a + b + 1
               ELSE a + b + (IF Bit(flags, 0) = 1 THEN 0 ELSE 1)
    IN  [f     |-> ToBitset8(tmp),
         flags |-> SetBit(flags, 0, IntToBool(IntNot(BoolToInt(tmp > 255))))]

\* AluShift with flags[0] assigned before f[7] is taken from it in case 10
AluShift_NewCarry(function, a, b, flags) ==
    LET sh == a \div 2
        f7 == CASE function = 8  -> 0
                [] function = 9  -> Bit(a, 0)
                [] function = 10 -> Bit(a, 0)
                [] function = 11 -> Bit(a, 7)
    IN  [f     |-> SetBit(sh, 7, f7),
         flags |-> SetBit(flags, 0, Bit(a, 0))]

\* cases 8 .. 11: right shifts
AluShift(function, a, b, flags) ==
    LET sh == a \div 2
        f7 == CASE function = 8  -> 0
                [] function = 9  -> Bit(a, 0)
                [] function = 10 -> Bit(flags, 0)
                [] function = 11 -> Bit(a, 7)
    IN  [f     |-> SetBit(sh, 7, f7),
         flags |-> SetBit(flags, 0, Bit(a, 0))]

\* AluCarry whose case 15 complements the promoted int, which is never zero
AluCarry_InvcAlwaysSet(function, a, b, flags) ==
    [f     |-> 0,
     flags |-> CASE function = 12 -> SetBit(flags, 0, 0)
                 [] function = 13 -> SetBit(flags, 0, 1)
                 [] function = 14 -> flags
                 [] function = 15 -> SetBit(flags, 0, 1)]

\* cases 12 .. 15: carry only, f stays 00000000
AluCarry(function, a, b, flags) ==
    [f     |-> 0,
     flags |-> CASE function = 12 -> SetBit(flags, 0, 0)
                 [] function = 13 -> SetBit(flags, 0, 1)
                 [] function = 14 -> flags
                 [] function = 15 -> SetBit(flags, 0, 1 - Bit(flags, 0))]

\* AluNZ that only ever sets the two flags and never clears them
AluNZ_SetOnly(f, flags) ==
    LET n == IF Bit(f, 7) = 1 THEN 1 ELSE Bit(flags, 1)
        z == IF f = 0 THEN 1 ELSE Bit(flags, 2)
    IN  SetBit(SetBit(flags, 1, n), 2, z)

\* the two statements after the switch: negative and zero flag
AluNZ(f, flags) ==
    SetBit(SetBit(flags, 1, Bit(f, 7)), 2, BoolToInt(f = 0))

\* bitset<8> Alu::calculate(function, a, b, bitset<3> & flags)
calculate(function, a, b, flags) ==
    LET r == CASE function \in 0 .. 3        -> AluLogic(function, a, b, flags)
               [] function \in {4, 6}        -> AluAdd(function, a, b, flags)
               [] function \in {5, 7}        -> AluAddInv(function, a, b, flags)
               [] function \in 8 .. 11       -> AluShift(function, a, b, flags)
               [] function \in 12 .. 15      -> AluCarry(function, a, b, flags)
    IN  [f |-> r.f, flags |-> AluNZ(r.f, r.flags)]

(***************************************************************************)
(* SoC::calculateNextAddress                                               *)
(***************************************************************************)
\* calculateNextAddress with the negative and zero flag read in table order
calculateNextAddress_SwapNZ(next, mac, falgs, flagRegister) ==
    LET func == SetBit(SetBit(SetBit(0, 2, Bit(mac, 1)), 1, Bit(mac, 0)), 0, Bit(next, 0))
        ret0 == CASE func \in {0, 1} -> Bit(next, 0)
                  [] func = 2        -> 1
                  [] func = 3        -> Bit(flagRegister, 0)
                  [] func = 4        -> Bit(falgs, 0)
                  [] func = 5        -> Bit(falgs, 1)
                  [] func = 6        -> Bit(falgs, 2)
                  [] func = 7        -> 0
    IN  SetBit(next, 0, ret0)

\* calculateNextAddress whose MAC=00 rows set bit 0 instead of keeping N0
calculateNextAddress_Mac00SetsBit(next, mac, falgs, flagRegister) ==
    LET func == SetBit(SetBit(SetBit(0, 2, Bit(mac, 1)), 1, Bit(mac, 0)), 0, Bit(next, 0))
        ret0 == CASE func \in {0, 1} -> 1
                  [] func = 2        -> 1
                  [] func = 3        -> Bit(flagRegister, 0)
                  [] func = 4        -> Bit(falgs, 0)
                  [] func = 5        -> Bit(falgs, 2)
                  [] func = 6        -> Bit(falgs, 1)
                  [] func = 7        -> 0
    IN  SetBit(next, 0, ret0)

calculateNextAddress(next, mac, falgs, flagRegister) ==
    LET func == SetBit(SetBit(SetBit(0, 2, Bit(mac, 1)), 1, Bit(mac, 0)), 0, Bit(next, 0))
        ret0 == CASE func \in {0, 1} -> Bit(next, 0)
                  [] func = 2        -> 1
                  [] func = 3        -> Bit(flagRegister, 0)
                  [] func = 4        -> Bit(falgs, 0)
                  [] func = 5        -> Bit(falgs, 2)
                  [] func = 6        -> Bit(falgs, 1)
                  [] func = 7        -> 0
    IN  SetBit(next, 0, ret0)

(***************************************************************************)
(* SoC::runInstruction, one operator per commented block of the method     *)
(***************************************************************************)
\* ReadA without the "write-only bus" check
ReadA_NoWriteOnlyCheck(cur, regs, mem, inp) ==
    LET aRegisterValue == regs[substr(3, 25, cur, 13)]
    IN  IF Bit(cur, 6) = 1
        THEN IF Bit(cur, 16) = 0
             THEN [fault |-> TRUE, a |-> 0]
             ELSE IF aRegisterValue >= 252
             THEN [fault |-> FALSE, a |-> inp[aRegisterValue - 252]]
             ELSE [fault |-> FALSE, a |-> mem[aRegisterValue]]
        ELSE [fault |-> FALSE, a |-> aRegisterValue]

\* ReadA that takes the A register itself as the operand when ASRC=1
ReadA_RegisterOnly(cur, regs, mem, inp) ==
    LET aRegisterValue == regs[substr(3, 25, cur, 13)]
    IN  IF Bit(cur, 6) = 1
        THEN IF Bit(cur, 16) = 0
             THEN [fault |-> TRUE, a |-> 0]
             ELSE IF Bit(cur, 17) = 1
             THEN [fault |-> TRUE, a |-> 0]
             ELSE [fault |-> FALSE, a |-> aRegisterValue]
        ELSE [fault |-> FALSE, a |-> aRegisterValue]

\* "Determine input a of ALU": fault is TRUE where the method throws
\* logic_error, a is the operand otherwise
ReadA(cur, regs, mem, inp) ==
    LET aRegisterValue == regs[substr(3, 25, cur, 13)]
    IN  IF Bit(cur, 6) = 1
        THEN IF Bit(cur, 16) = 0
             THEN [fault |-> TRUE, a |-> 0]
             ELSE IF Bit(cur, 17) = 1
             THEN [fault |-> TRUE, a |-> 0]
             ELSE IF aRegisterValue >= 252
             THEN [fault |-> FALSE, a |-> inp[aRegisterValue - 252]]
             ELSE [fault |-> FALSE, a |-> mem[aRegisterValue]]
        ELSE [fault |-> FALSE, a |-> aRegisterValue]

\* ReadB that takes the four bits IMM3:BREG as they are, bits 7..4 zero
ReadB_ZeroExtended(cur, regs) ==
    IF Bit(cur, 5) = 1
    THEN substr(4, 25, cur, 9)
    ELSE regs[substr(3, 25, cur, 9)]

\* "Determine input b of ALU"
ReadB(cur, regs) ==
    IF Bit(cur, 5) = 1
    THEN LET bTmp == substr(4, 25, cur, 9)
             b0   == IF Bit(bTmp, 3) = 1 THEN 255 ELSE 0
         IN  SetBit(SetBit(SetBit(b0, 2, Bit(bTmp, 2)), 1, Bit(bTmp, 1)), 0, Bit(bTmp, 0))
    ELSE regs[substr(3, 25, cur, 9)]

\* WriteBack that takes the A register as the target whatever WTGT is
WriteBack_AlwaysA(cur, regs, f) ==
    IF Bit(cur, 7) = 1
    THEN [regs EXCEPT ![substr(3, 25, cur, 13)] = f]
    ELSE regs

\* WriteBack without the test of cur[7]
WriteBack_IgnoreWR(cur, regs, f) ==
    IF Bit(cur, 8) = 1
    THEN [regs EXCEPT ![substr(3, 25, cur, 9)] = f]
    ELSE [regs EXCEPT ![substr(3, 25, cur, 13)] = f]

\* WriteBack that leaves the register file alone when the microword also
\* writes the bus
WriteBack_NotWithBusWrite(cur, regs, f) ==
    IF Bit(cur, 7) = 1 /\ ~(Bit(cur, 16) = 1 /\ Bit(cur, 17) = 1)
    THEN IF Bit(cur, 8) = 1
         THEN [regs EXCEPT ![substr(3, 25, cur, 9)] = f]
         ELSE [regs EXCEPT ![substr(3, 25, cur, 13)] = f]
    ELSE regs

\* "Save back to registers": the register file after the block
WriteBack(cur, regs, f) ==
    IF Bit(cur, 7) = 1
    THEN IF Bit(cur, 8) = 1
         THEN [regs EXCEPT ![substr(3, 25, cur, 9)] = f]
         ELSE [regs EXCEPT ![substr(3, 25, cur, 13)] = f]
    ELSE regs

\* BusWrite that rejects address 0xFC only and takes 0xFD for an output port
BusWrite_OnlyFC(cur, regs, mem, outp, f) ==
    IF Bit(cur, 16) = 1 /\ Bit(cur, 17) = 1
    THEN LET address == regs[substr(3, 25, cur, 13)]
         IN  IF address = 252
             THEN [fault |-> TRUE, ram |-> mem, outputRegister |-> outp]
             ELSE IF address >= 253
             THEN [fault |-> FALSE, ram |-> mem,
                   outputRegister |-> [i \in DOMAIN outp |->
                                          IF i = address - 254 THEN f ELSE outp[i]]]
             ELSE [fault |-> FALSE, ram |-> [mem EXCEPT ![address] = f],
                   outputRegister |-> outp]
    ELSE [fault |-> FALSE, ram |-> mem, outputRegister |-> outp]

\* BusWrite that stores every port write in outputRegister[0]
BusWrite_FirstPort(cur, regs, mem, outp, f) ==
    IF Bit(cur, 16) = 1 /\ Bit(cur, 17) = 1
    THEN LET address == regs[substr(3, 25, cur, 13)]
         IN  IF address = 252 \/ address = 253
             THEN [fault |-> TRUE, ram |-> mem, outputRegister |-> outp]
             ELSE IF address >= 254
             THEN [fault |-> FALSE, ram |-> mem,
                   outputRegister |-> [outp EXCEPT ![0] = f]]
             ELSE [fault |-> FALSE, ram |-> [mem EXCEPT ![address] = f],
                   outputRegister |-> outp]
    ELSE [fault |-> FALSE, ram |-> mem, outputRegister |-> outp]

\* BusWrite that stores to the output ports only and drops a write to ram
BusWrite_PortsOnly(cur, regs, mem, outp, f) ==
    IF Bit(cur, 16) = 1 /\ Bit(cur, 17) = 1
    THEN LET address == regs[substr(3, 25, cur, 13)]
         IN  IF address = 252 \/ address = 253
             THEN [fault |-> TRUE, ram |-> mem, outputRegister |-> outp]
             ELSE IF address >= 254
             THEN [fault |-> FALSE, ram |-> mem,
                   outputRegister |-> [outp EXCEPT ![address - 254] = f]]
             ELSE [fault |-> FALSE, ram |-> mem, outputRegister |-> outp]
    ELSE [fault |-> FALSE, ram |-> mem, outputRegister |-> outp]

\* BusWrite that stores a port write in both output registers
BusWrite_AllPorts(cur, regs, mem, outp, f) ==
    IF Bit(cur, 16) = 1 /\ Bit(cur, 17) = 1
    THEN LET address == regs[substr(3, 25, cur, 13)]
         IN  IF address = 252 \/ address = 253
             THEN [fault |-> TRUE, ram |-> mem, outputRegister |-> outp]
             ELSE IF address >= 254
             THEN [fault |-> FALSE, ram |-> mem,
                   outputRegister |-> [i \in DOMAIN outp |-> f]]
             ELSE [fault |-> FALSE, ram |-> [mem EXCEPT ![address] = f],
                   outputRegister |-> outp]
    ELSE [fault |-> FALSE, ram |-> mem, outputRegister |-> outp]

\* "Save back to RAM": regs is the register file after the writeback
BusWrite(cur, regs, mem, outp, f) ==
    IF Bit(cur, 16) = 1 /\ Bit(cur, 17) = 1
    THEN LET address == regs[substr(3, 25, cur, 13)]
         IN  IF address = 252 \/ address = 253
             THEN [fault |-> TRUE, ram |-> mem, outputRegister |-> outp]
             ELSE IF address >= 254
             THEN [fault |-> FALSE, ram |-> mem,
                   outputRegister |-> [outp EXCEPT ![address - 254] = f]]
             ELSE [fault |-> FALSE, ram |-> [mem EXCEPT ![address] = f],
                   outputRegister |-> outp]
    ELSE [fault |-> FALSE, ram |-> mem, outputRegister |-> outp]

\* CopyFlags for a flagsNew that is default constructed and never assigned
CopyFlags_Zero(flagRegister) == 0

\* "Calculate output of alu": bitset<3> flagsNew = flags, the triple handed
\* to Alu::calculate by reference
CopyFlags(flagRegister) == flagRegister

\* LatchFlags without the test of cur[0]
LatchFlags_Always(cur, flagRegister, flagsNew) == flagsNew

\* "Save output flags if desired"
LatchFlags(cur, flagRegister, flagsNew) ==
    IF Bit(cur, 0) = 1 THEN flagsNew ELSE flagRegister

\* "Calculate next address": flagRegister is the flag register as it stands
\* when the call is made, i.e. after the latch
NextAddress(cur, flagsNew, flagRegister) ==
    calculateNextAddress(substr(5, 25, cur, 18), substr(2, 25, cur, 23),
                         flagsNew, flagRegister)

(***************************************************************************)
(* State of a SoC object (SoC.h) and of the calls made on it               *)
(***************************************************************************)
VARIABLES
    ram,              \* bitset<8> ram[ramSize]
    instructionRam,   \* bitset<25> instructionRam[instructionRamSize]
    registers,        \* bitset<8> registers[registerCount]
    inputRegister,    \* bitset<8> inputRegister[inputRegisterCount]
    outputRegister,   \* bitset<8> outputRegister[outputRegisterCount]
    flags,            \* bitset<3> flags: [0] carry, [1] negative, [2] zero
    nextInstruction,  \* bitset<5> nextInstruction
    pre,              \* the members above as they were when the last call started
    last,             \* the last call on the object: method, arguments, outcome
    aluCall,          \* the call of Alu::calculate made by the last call, if any
    nextCall,         \* the call of calculateNextAddress made by the last call, if any
    nSet,             \* number of setInstruction calls so far
    nRun,             \* number of runInstruction calls so far
    nPoke,            \* number of setRam and setInputRegister calls so far
    history           \* the calls made so far, in order, where a specification
                      \* records them (ProgNext, AluSeqNext); <<>> elsewhere

members == <<ram, instructionRam, registers, inputRegister, outputRegister,
             flags, nextInstruction>>
counters == <<nSet, nRun, nPoke>>
vars == <<ram, instructionRam, registers, inputRegister, outputRegister,
          flags, nextInstruction, pre, last, aluCall, nextCall, nSet, nRun, nPoke,
          history>>

\* the members of the object as one record
Snapshot ==
    [ram |-> ram, instructionRam |-> instructionRam, registers |-> registers,
     inputRegister |-> inputRegister, outputRegister |-> outputRegister,
     flags |-> flags, nextInstruction |-> nextInstruction]

\* a call record: result is "ok", "logic_error" or "out_of_range"
Call(op, pos, value, result, ret) ==
    [op |-> op, pos |-> pos, value |-> value, result |-> result, ret |-> ret]

NoAluCall == [done |-> FALSE, function |-> 0, a |-> 0, b |-> 0,
              flagsIn |-> 0, f |-> 0, flagsOut |-> 0]
NoNextCall == [done |-> FALSE, next |-> 0, mac |-> 0, falgs |-> 0,
               flagRegister |-> 0, ret |-> 0]

\* a microword from its fields (bit positions as decoded by runInstruction)
Word(fl, op, bsel, asrc, wr, wtgt, breg, imm3, areg, busen, buswr, next, mac) ==
    fl + 2 * op + 32 * bsel + 64 * asrc + 128 * wr + 256 * wtgt + 512 * breg
       + 4096 * imm3 + 8192 * areg + 65536 * busen + 131072 * buswr
       + 262144 * next + 8388608 * mac

(***************************************************************************)
(* Arguments the calls are explored with                                   *)
(***************************************************************************)
\* first microwords: an immediate load (LET B) of 0xFD into register 0, under
\* every setting of the bus bits ASRC, BUS_EN, BUS_WR; as a bus write cycle
\* (BUS_EN = 1, BUS_WR = 1) also with the immediates 0xFB, 0xFC and 0xFE
BusWords ==
    { Word(1, 1, 1, asrc, 1, 0, 5, 1, 0, busen, buswr, 1, 0) :
        asrc \in {0, 1}, busen \in {0, 1}, buswr \in {0, 1} }
    \cup { Word(1, 1, 1, asrc, 1, 0, breg, 1, 0, 1, 1, 1, 0) :
             asrc \in {0, 1}, breg \in {3, 4, 6} }

\* first microwords: INVC, latched or not, branching unconditionally, on the
\* latched carry and on the zero flag
BranchWords ==
    { Word(fl, 15, 0, 0, 0, 0, 0, 0, 0, 0, 0, sel[1], sel[2]) :
        fl \in {0, 1}, sel \in {<<0, 0>>, <<1, 1>>, <<1, 2>>} }

\* second microwords: LET A as a bus write or a bus read through register 0,
\* with and without writeback to register 1
SecondWords ==
    { Word(0, 0, 0, bus[1], wr, 1, 1, 0, 0, 1, bus[2], 2, 1) :
        wr \in {0, 1}, bus \in {<<0, 1>>, <<1, 0>>} }

InstrInputs ==
    ({0} \X (BusWords \cup BranchWords)) \cup ({1} \X SecondWords)
        \cup {<<instructionRamSize, 1>>}

RamInputs == {<<ramSize - 1, 42>>, <<ramSize, 42>>}
InputInputs == {<<0, 66>>, <<inputRegisterCount, 66>>}

(***************************************************************************)
(* Construction: every bitset is value initialised                         *)
(***************************************************************************)
Construct ==
    /\ ram = [i \in 0 .. ramSize - 1 |-> 0]
    /\ instructionRam = [i \in 0 .. instructionRamSize - 1 |-> 0]
    /\ registers = [i \in 0 .. registerCount - 1 |-> 0]
    /\ inputRegister = [i \in 0 .. inputRegisterCount - 1 |-> 0]
    /\ outputRegister = [i \in 0 .. outputRegisterCount - 1 |-> 0]
    /\ flags = 0
    /\ nextInstruction = 0
    /\ pre = [ram |-> [i \in 0 .. ramSize - 1 |-> 0],
              instructionRam |-> [i \in 0 .. instructionRamSize - 1 |-> 0],
              registers |-> [i \in 0 .. registerCount - 1 |-> 0],
              inputRegister |-> [i \in 0 .. inputRegisterCount - 1 |-> 0],
              outputRegister |-> [i \in 0 .. outputRegisterCount - 1 |-> 0],
              flags |-> 0, nextInstruction |-> 0]
    /\ last = Call("SoC", 0, 0, "ok", 0)
    /\ nSet = 0 /\ nRun = 0 /\ nPoke = 0
    /\ history = <<>>

Init ==
    /\ Construct
    /\ aluCall = NoAluCall
    /\ nextCall = NoNextCall

(***************************************************************************)
(* void SoC::runInstruction()                                              *)
(***************************************************************************)
\* the method itself, counted
RunStep ==
    /\ nRun' = nRun + 1
    /\ UNCHANGED <<nSet, nPoke, instructionRam, inputRegister>>
    /\ pre' = Snapshot
    /\ LET cur == instructionRam[nextInstruction]
           ra  == ReadA(cur, registers, ram, inputRegister)
       IN  IF ra.fault
           THEN \* thrown before anything was written
                /\ last' = Call("runInstruction", nextInstruction, cur, "logic_error", 0)
                /\ aluCall' = NoAluCall
                /\ nextCall' = NoNextCall
                /\ UNCHANGED <<ram, registers, outputRegister, flags, nextInstruction>>
           ELSE LET b        == ReadB(cur, registers)
                    function == substr(4, 25, cur, 1)
                    r        == calculate(function, ra.a, b, CopyFlags(flags))
                    flagsNew == r.flags
                    regs2    == WriteBack(cur, registers, r.f)
                    bw       == BusWrite(cur, regs2, ram, outputRegister, r.f)
                    latched  == LatchFlags(cur, flags, flagsNew)
                IN  /\ aluCall' = [done |-> TRUE, function |-> function, a |-> ra.a,
                                   b |-> b, flagsIn |-> CopyFlags(flags), f |-> r.f,
                                   flagsOut |-> flagsNew]
                    /\ registers' = regs2
                    /\ IF bw.fault
                       THEN \* thrown after the register writeback
                            /\ last' = Call("runInstruction", nextInstruction, cur,
                                            "logic_error", 0)
                            /\ nextCall' = NoNextCall
                            /\ UNCHANGED <<ram, outputRegister, flags, nextInstruction>>
                       ELSE /\ last' = Call("runInstruction", nextInstruction, cur, "ok", 0)
                            /\ ram' = bw.ram
                            /\ outputRegister' = bw.outputRegister
                            /\ flags' = latched
                            /\ nextInstruction' = NextAddress(cur, flagsNew, latched)
                            /\ nextCall' = [done |-> TRUE,
                                            next |-> substr(5, 25, cur, 18),
                                            mac |-> substr(2, 25, cur, 23),
                                            falgs |-> flagsNew, flagRegister |-> latched,
                                            ret |-> NextAddress(cur, flagsNew, latched)]

runInstruction ==
    /\ nRun < MaxRuns
    /\ RunStep
    /\ UNCHANGED history

(***************************************************************************)
(* Setters (SoC.cpp)                                                       *)
(***************************************************************************)
\* the method itself, counted
SetInstructionStep(position, value) ==
    /\ nSet' = nSet + 1
    /\ pre' = Snapshot
    /\ aluCall' = NoAluCall /\ nextCall' = NoNextCall
    /\ UNCHANGED <<nRun, nPoke, ram, registers, inputRegister, outputRegister,
                   flags, nextInstruction>>
    /\ IF position < instructionRamSize
       THEN /\ instructionRam' = [instructionRam EXCEPT ![position] = value]
            /\ last' = Call("setInstruction", position, value, "ok", 0)
       ELSE /\ UNCHANGED instructionRam
            /\ last' = Call("setInstruction", position, value, "out_of_range", 0)

setInstruction ==
    \E in \in InstrInputs :
        /\ nSet < MaxSets
        /\ SetInstructionStep(in[1], in[2])
        /\ UNCHANGED history

\* the method itself, counted
SetRamStep(position, value) ==
    /\ nPoke' = nPoke + 1
    /\ pre' = Snapshot
    /\ aluCall' = NoAluCall /\ nextCall' = NoNextCall
    /\ UNCHANGED <<nRun, nSet, instructionRam, registers, inputRegister,
                   outputRegister, flags, nextInstruction>>
    /\ IF position < ramSize
       THEN /\ ram' = [ram EXCEPT ![position] = value]
            /\ last' = Call("setRam", position, value, "ok", 0)
       ELSE /\ UNCHANGED ram
            /\ last' = Call("setRam", position, value, "out_of_range", 0)

setRam ==
    \E in \in RamInputs :
        /\ nPoke < MaxPokes
        /\ SetRamStep(in[1], in[2])
        /\ UNCHANGED history

\* the method itself, counted
SetInputRegisterStep(position, value) ==
    /\ nPoke' = nPoke + 1
    /\ pre' = Snapshot
    /\ aluCall' = NoAluCall /\ nextCall' = NoNextCall
    /\ UNCHANGED <<nRun, nSet, instructionRam, registers, ram,
                   outputRegister, flags, nextInstruction>>
    /\ IF position < inputRegisterCount
       THEN /\ inputRegister' = [inputRegister EXCEPT ![position] = value]
            /\ last' = Call("setInputRegister", position, value, "ok", 0)
       ELSE /\ UNCHANGED inputRegister
            /\ last' = Call("setInputRegister", position, value, "out_of_range", 0)

setInputRegister ==
    \E in \in InputInputs :
        /\ nPoke < MaxPokes
        /\ SetInputRegisterStep(in[1], in[2])
        /\ UNCHANGED history

Next ==
    \/ runInstruction
    \/ setInstruction
    \/ setRam
    \/ setInputRegister

Spec == Init /\ [][Next]_vars

(***************************************************************************)
(* Alu::calculate on its own: the arguments are drawn at the start and the *)
(* one action makes the call                                               *)
(***************************************************************************)
AluFunctions == 0 .. 15
AluA == 0 .. 255
AluB == {0, 1, 19, 45, 127, 128, 212, 236, 255}
AluFlagsIn == 0 .. 7

AluInit ==
    /\ Construct
    /\ nextCall = NoNextCall
    /\ \E function \in AluFunctions, a \in AluA, b \in AluB, fin \in AluFlagsIn :
          aluCall = [done |-> FALSE, function |-> function, a |-> a, b |-> b,
                     flagsIn |-> fin, f |-> 0, flagsOut |-> 0]

AluCalculate ==
    /\ ~aluCall.done
    /\ LET r == calculate(aluCall.function, aluCall.a, aluCall.b, aluCall.flagsIn)
       IN  aluCall' = [aluCall EXCEPT !.done = TRUE, !.f = r.f, !.flagsOut = r.flags]
    /\ UNCHANGED <<members, counters, pre, last, nextCall, history>>

AluNext == AluCalculate

SpecAlu == AluInit /\ [][AluNext]_vars

(***************************************************************************)
(* SoC::calculateNextAddress on its own, over all of its arguments         *)
(***************************************************************************)
NextAddrInit ==
    /\ Construct
    /\ aluCall = NoAluCall
    /\ \E next \in 0 .. 31, mac \in 0 .. 3, falgs \in 0 .. 7, flagRegister \in 0 .. 7 :
          nextCall = [done |-> FALSE, next |-> next, mac |-> mac, falgs |-> falgs,
                      flagRegister |-> flagRegister, ret |-> 0]

NextAddrCalculate ==
    /\ ~nextCall.done
    /\ nextCall' = [nextCall EXCEPT !.done = TRUE,
                      !.ret = calculateNextAddress(nextCall.next, nextCall.mac,
                                                   nextCall.falgs, nextCall.flagRegister)]
    /\ UNCHANGED <<members, counters, pre, last, aluCall, history>>

NextAddrNext == NextAddrCalculate

SpecNextAddr == NextAddrInit /\ [][NextAddrNext]_vars

(***************************************************************************)
(* Alu::calculate called repeatedly on one flags triple, as a caller that  *)
(* keeps a bitset<3> and passes it by reference to every call              *)
(* (AluTest.cpp, testFlags).  aluCall.flagsOut is that triple.             *)
(***************************************************************************)
SeqFunctions == {0, 12, 13, 14, 15}
SeqA == {0, 45, 214}
SeqB == {0, 45}
SeqFlags == {0, 7}

AluSeqInit ==
    /\ Construct
    /\ nextCall = NoNextCall
    /\ \E fin \in SeqFlags : aluCall = [NoAluCall EXCEPT !.flagsOut = fin]

AluSeqCalculate ==
    /\ Len(history) < MaxCalls
    /\ \E function \in SeqFunctions, a \in SeqA, b \in SeqB :
          LET fin == aluCall.flagsOut
              r   == calculate(function, a, b, fin)
          IN  /\ aluCall' = [done |-> TRUE, function |-> function, a |-> a, b |-> b,
                             flagsIn |-> fin, f |-> r.f, flagsOut |-> r.flags]
              /\ history' = Append(history, [function |-> function, flagsIn |-> fin,
                                             f |-> r.f, flagsOut |-> r.flags])
    /\ UNCHANGED <<members, counters, pre, last, nextCall>>

AluSeqNext == AluSeqCalculate

SpecAluSeq == AluSeqInit /\ [][AluSeqNext]_vars

(***************************************************************************)
(* The object driven as ConsoleRunner drives it (2iEmulator.cpp): the      *)
(* microprogram is entered first, one word per position from 0 upwards,    *)
(* and after that every command runs one instruction or changes an input   *)
(* register.  setRam is the remaining public setter; it is called between  *)
(* runs like setInputRegister.  history records every call after loading.  *)
(***************************************************************************)
MaxProgLen == 4
MaxProgRuns == 4
MaxProgPokes == 1

\* LET B of the immediate 1:breg (0xF8 + breg) into REG[0], then position 1
LoadAddressWords == {Word(0, 1, 1, 0, 1, 0, breg, 1, 0, 0, 0, 1, 0) : breg \in {3, 4, 6, 7}}

\* BSEL=1, IMM3=0, BREG=101, LET B, WR=1, WTGT=1, FL=0, MAC=00, NEXT=00001
LoadFiveWords == {Word(0, 1, 1, 0, 1, 1, 5, 0, 1, 0, 0, 1, 0)}

\* ADD of two registers with WR=1, NEXT=00010
AddWords ==
    {Word(0, 4, 0, 0, 1, wtgt, breg, 0, areg, 0, 0, 2, 0) :
        wtgt \in {0, 1}, breg \in {1, 2, 5}, areg \in {1, 5}}

\* ADD of REG[0] and the immediate 1 with FL=1
AddCarryWords == {Word(1, 4, 1, 0, 0, 0, 1, 0, 0, 0, 0, 2, 0)}

\* LET A through the bus, address in REG[0], BREG=1
BusReadWords(next) ==
    {Word(0, 0, 0, 1, wr[1], wr[2], 1, 0, 0, 1, 0, next, 0) :
        wr \in {<<0, 0>>, <<1, 0>>, <<1, 1>>}}

\* LET B of the immediate 5 onto the bus, address in REG[0]
BusWriteWords == {Word(0, 1, 1, 0, wr, 0, 5, 0, 0, 1, 1, 2, 0) : wr \in {0, 1}}

\* WR=0, BUS_EN=0, FL=0
NullWords ==
    {Word(0, op, 0, asrc, 0, 0, 1, 0, 0, 0, buswr, 2, 0) :
        op \in {13}, asrc \in {0, 1}, buswr \in {0, 1}}

\* ADC and ADD of REG[1] and REG[2] with FL=0, SETC with FL=0
ThirdWords ==
    {Word(0, op, 0, 0, 0, 0, 2, 0, 1, 0, 0, 3, 0) : op \in {4, 6, 13}}

\* MAC=01, NEXT=00001 on an ADD of REG[1] and REG[2]; ADC of the same
CarryBranchWords ==
    {Word(fl, 4, 0, 0, 0, 0, 2, 0, 1, 0, 0, 1, 1) : fl \in {0, 1}}
        \cup {Word(0, 6, 0, 0, 0, 0, 2, 0, 1, 0, 0, 0, 0)}

\* the words offered for a position of the microprogram
ProgWords(position) ==
    CASE position = 0 -> LoadAddressWords \cup LoadFiveWords
      [] position = 1 -> AddWords \cup AddCarryWords \cup BusReadWords(2)
                            \cup BusWriteWords \cup NullWords
      [] position = 2 -> ThirdWords \cup {Word(0, 0, 0, 1, 1, 1, 1, 0, 0, 1, 0, 3, 0)}
      [] position = 3 -> CarryBranchWords
      [] OTHER        -> {0}

ProgRamInputs == {<<ramSize - 1, 66>>}
ProgInputInputs == {<<0, 66>>}

\* one entry of history: the call, and the registers, flags and
\* nextInstruction it left
Entry(call, alu, regs, flagRegister, pc) ==
    [call |-> call, alu |-> alu, registers |-> regs, flags |-> flagRegister,
     nextInstruction |-> pc]

ProgInit == Init

\* readInstructions: soc.setInstruction(i, instruction) for i = 0, 1, ...
ProgLoad ==
    /\ nRun = 0 /\ nPoke = 0
    /\ nSet < MaxProgLen
    /\ \E value \in ProgWords(nSet) : SetInstructionStep(nSet, value)
    /\ UNCHANGED history

\* run: soc.runInstruction()
ProgRun ==
    /\ nRun < MaxProgRuns
    /\ RunStep
    /\ history' = Append(history, Entry(last', aluCall', registers', flags',
                                        nextInstruction'))

\* run: setInputRegister
ProgSetInputRegister ==
    /\ nPoke < MaxProgPokes
    /\ \E in \in ProgInputInputs : SetInputRegisterStep(in[1], in[2])
    /\ history' = Append(history, Entry(last', aluCall', registers', flags',
                                        nextInstruction'))

ProgSetRam ==
    /\ nPoke < MaxProgPokes
    /\ \E in \in ProgRamInputs : SetRamStep(in[1], in[2])
    /\ history' = Append(history, Entry(last', aluCall', registers', flags',
                                        nextInstruction'))

ProgNext ==
    \/ ProgLoad
    \/ ProgRun
    \/ ProgSetInputRegister
    \/ ProgSetRam

SpecProg == ProgInit /\ [][ProgNext]_vars

(***************************************************************************)
(* The indexed accessors of the public interface (SoC.h:19-28), called in  *)
(* any order on the object, together with runInstruction.  The getters are *)
(* those of SoC.cpp; setOutputRegister is declared in SoC.h and defined in *)
(* Cpu.cpp only.  history records every call.                              *)
(***************************************************************************)
MaxAccessCalls == 3

\* Getter that returns the first element whatever the position
Getter_FirstElement(op, array, size, position) ==
    /\ pre' = Snapshot
    /\ aluCall' = NoAluCall /\ nextCall' = NoNextCall
    /\ UNCHANGED <<members, counters>>
    /\ IF position < size
       THEN last' = Call(op, position, 0, "ok", array[0])
       ELSE last' = Call(op, position, 0, "out_of_range", 0)

\* a getter: returns array[position] or throws out_of_range
Getter(op, array, size, position) ==
    /\ pre' = Snapshot
    /\ aluCall' = NoAluCall /\ nextCall' = NoNextCall
    /\ UNCHANGED <<members, counters>>
    /\ IF position < size
       THEN last' = Call(op, position, 0, "ok", array[position])
       ELSE last' = Call(op, position, 0, "out_of_range", 0)

getInstruction(position) ==
    Getter("getInstruction", instructionRam, instructionRamSize, position)

getRam(position) == Getter("getRam", ram, ramSize, position)

getRegister(position) == Getter("getRegister", registers, registerCount, position)

getInputRegister(position) ==
    Getter("getInputRegister", inputRegister, inputRegisterCount, position)

getOutputRegister(position) ==
    Getter("getOutputRegister", outputRegister, outputRegisterCount, position)

\* bool SoC::setOutputRegister: assigns outputRegister[position] or throws;
\* the function has no return statement, ret is whatever the caller finds
setOutputRegister(position, value) ==
    /\ pre' = Snapshot
    /\ aluCall' = NoAluCall /\ nextCall' = NoNextCall
    /\ UNCHANGED <<counters, ram, instructionRam, registers, inputRegister,
                   flags, nextInstruction>>
    /\ IF position < outputRegisterCount
       THEN /\ outputRegister' = [outputRegister EXCEPT ![position] = value]
            /\ \E ret \in {0, 1} :
                  last' = Call("setOutputRegister", position, value, "ok", ret)
       ELSE /\ UNCHANGED outputRegister
            /\ last' = Call("setOutputRegister", position, value, "out_of_range", 0)

\* LET B of the immediate 0xFF with WR=1 to REG[0] and a bus write through
\* REG[0]: one run leaves 0xFF in registers[0] and outputRegister[1]
AccessWords == {Word(0, 1, 1, 0, 1, 0, 7, 1, 0, 1, 1, 1, 0)}

\* the positions handed to the accessors of an array: one inside, the first
\* one outside
AccessPositions(first, size) == {first, size}

AccessValues == {66}

AccessInit == Init

\* what every call of this specification records
Recorded ==
    /\ Len(history) < MaxAccessCalls
    /\ history' = Append(history, Entry(last', aluCall', registers', flags',
                                        nextInstruction'))

AccessRun == RunStep /\ Recorded

AccessGet ==
    /\ \/ \E position \in AccessPositions(0, instructionRamSize) :
             getInstruction(position)
       \/ \E position \in AccessPositions(ramSize - 1, ramSize) : getRam(position)
       \/ \E position \in AccessPositions(0, registerCount) : getRegister(position)
       \/ \E position \in AccessPositions(inputRegisterCount - 1, inputRegisterCount) :
             getInputRegister(position)
       \/ \E position \in AccessPositions(outputRegisterCount - 1, outputRegisterCount) :
             getOutputRegister(position)
    /\ Recorded

AccessSet ==
    /\ \/ \E position \in AccessPositions(0, instructionRamSize), value \in AccessWords :
             SetInstructionStep(position, value)
       \/ \E position \in AccessPositions(ramSize - 1, ramSize), value \in AccessValues :
             SetRamStep(position, value)
       \/ \E position \in AccessPositions(inputRegisterCount - 1, inputRegisterCount),
             value \in AccessValues :
             SetInputRegisterStep(position, value)
    /\ Recorded

AccessSetOutputRegister ==
    /\ \E position \in AccessPositions(outputRegisterCount - 1, outputRegisterCount),
          value \in AccessValues :
          setOutputRegister(position, value)
    /\ Recorded

AccessNext ==
    \/ AccessRun
    \/ AccessGet
    \/ AccessSet
    \/ AccessSetOutputRegister

SpecAccess == AccessInit /\ [][AccessNext]_vars

(***************************************************************************)
(* Two-word microprograms with a wide choice of the second word: the first *)
(* word leaves an address in registers[0], the second is run on that.      *)
(* Entered and run as by ConsoleRunner (2iEmulator.cpp), without input     *)
(* changes.                                                                *)
(***************************************************************************)
MaxStepLen == 2
MaxStepRuns == 2

\* LET B of the immediate 0xF8 + breg into REG[0], then position 1
StepFirstWords == {Word(0, 1, 1, 0, 1, 0, breg, 1, 0, 0, 0, 1, 0) : breg \in 3 .. 7}

\* LET A, LET B and ADD with FL=0, MAC=00, NEXT=00010 and every value of the
\* other fields, AREG being 0 or 1
StepSecondWords ==
    {Word(0, op, bsel, asrc, wr, wtgt, breg, imm3, areg, busen, buswr, 2, 0) :
        op \in {0, 1, 4}, bsel \in {0, 1}, asrc \in {0, 1}, wr \in {0, 1},
        wtgt \in {0, 1}, breg \in 0 .. 7, imm3 \in {0, 1}, areg \in {0, 1},
        busen \in {0, 1}, buswr \in {0, 1}}

StepWords(position) ==
    CASE position = 0 -> StepFirstWords
      [] position = 1 -> StepSecondWords
      [] OTHER        -> {0}

StepInit == Init

\* readInstructions: soc.setInstruction(i, instruction) for i = 0, 1, ...
StepLoad ==
    /\ nRun = 0
    /\ nSet < MaxStepLen
    /\ \E value \in StepWords(nSet) : SetInstructionStep(nSet, value)
    /\ UNCHANGED history

\* run: soc.runInstruction()
StepRun ==
    /\ nRun < MaxStepRuns
    /\ RunStep
    /\ UNCHANGED history

StepNext ==
    \/ StepLoad
    \/ StepRun

SpecStep == StepInit /\ [][StepNext]_vars

(***************************************************************************)
(* Properties of runInstruction (checked under Spec)                       *)
(***************************************************************************)
\* the last call was runInstruction, on microword last.value
Ran == last.op = "runInstruction"
RanOk == Ran /\ last.result = "ok"
Faulted == Ran /\ last.result = "logic_error"

\* C1: whenever runInstruction ends in a fault, every member of the machine
\* (PC, FLAGS, registers, RAM, OUT, IN, IMEM) equals its value before the call.
C1_FaultAtomicity ==
    Faulted => Snapshot = pre

\* C2: a step whose microword has BUS_EN = 1 and BUS_WR = 1 and whose bus
\* address REG[AREG], taken after the register writeback, is 0xFC or 0xFD
\* faults, and PC, RAM and both OUT ports are unchanged by the call.
C2_InputPortWriteFault ==
    LET cur == last.value
    IN  (/\ Ran
         /\ Bit(cur, 16) = 1 /\ Bit(cur, 17) = 1
         /\ registers[substr(3, 25, cur, 13)] \in {252, 253})
        => /\ last.result = "logic_error"
           /\ nextInstruction = pre.nextInstruction
           /\ ram = pre.ram
           /\ outputRegister = pre.outputRegister

\* C2 witness (scenario S5): register 0 held 0xFD before the step, the
\* microword is a bus write through register 0 from the register file, and
\* the step faulted.
C2_Witness ==
    LET cur == last.value
    IN  /\ Faulted
        /\ Bit(cur, 6) = 0 /\ Bit(cur, 16) = 1 /\ Bit(cur, 17) = 1
        /\ substr(3, 25, cur, 13) = 0
        /\ pre.registers[0] = 253 /\ registers[0] = 253

\* C3: a step faults exactly when ASRC = 1 with BUS_EN = 0, or ASRC = 1 with
\* BUS_WR = 1, or BUS_EN = 1 and BUS_WR = 1 with bus write address 0xFC or
\* 0xFD; every other step succeeds and gives PC the next address of its
\* microword (bits 4..1 of NEXT), and a faulting step leaves PC alone.
C3_ExactFaultCondition ==
    LET cur     == last.value
        asrc    == Bit(cur, 6)
        busEn   == Bit(cur, 16)
        busWr   == Bit(cur, 17)
        address == registers[substr(3, 25, cur, 13)]
        cond    == \/ asrc = 1 /\ busEn = 0
                   \/ asrc = 1 /\ busWr = 1
                   \/ busEn = 1 /\ busWr = 1 /\ address \in {252, 253}
    IN  Ran => /\ last.result \in {"ok", "logic_error"}
               /\ (last.result = "logic_error") <=> cond
               /\ cond => nextInstruction = pre.nextInstruction
               /\ ~cond => /\ nextCall.done
                           /\ nextInstruction = nextCall.ret
                           /\ nextInstruction \div 2 = substr(5, 25, cur, 18) \div 2

\* C3 witness: a bus read (ASRC = 1) with BUS_EN = 1 and BUS_WR = 1 faulted
\* although the address register holds a RAM address.
C3_Witness ==
    LET cur == last.value
    IN  /\ Faulted
        /\ Bit(cur, 6) = 1 /\ Bit(cur, 16) = 1 /\ Bit(cur, 17) = 1
        /\ registers[substr(3, 25, cur, 13)] < 252

\* C4: after every successful step PC equals the next address computed from
\* NEXT, MAC, the flags of this step's ALU operation and the FLAGS register
\* as it was before the step started.
C4_NextAddressOldFlags ==
    LET cur == last.value
    IN  RanOk => nextInstruction =
                    calculateNextAddress(substr(5, 25, cur, 18), substr(2, 25, cur, 23),
                                         aluCall.flagsOut, pre.flags)

\* C6: a successful step with FL = 0 leaves FLAGS as it was, one with FL = 1
\* sets FLAGS to the flags produced by this step's ALU operation; every other
\* call (setter, faulting step) leaves FLAGS as it was.
C6_FlagLatching ==
    LET cur == last.value
    IN  /\ (RanOk /\ Bit(cur, 0) = 0) => flags = pre.flags
        /\ (RanOk /\ Bit(cur, 0) = 1) => (aluCall.done /\ flags = aluCall.flagsOut)
        /\ ~RanOk => flags = pre.flags

\* C6 witness: a successful step with FL = 0 whose ALU operation produced
\* flags different from the latched ones.
C6_Witness ==
    /\ RanOk
    /\ Bit(last.value, 0) = 0
    /\ aluCall.done /\ aluCall.flagsOut # pre.flags
    /\ pre.flags # 0

(***************************************************************************)
(* Properties of calculateNextAddress (checked under SpecNextAddr)         *)
(***************************************************************************)
\* C5: bits 4..1 of the result are bits 4..1 of next; bit 0 is chosen by
\* sel = (mac[1], mac[0], next[0]): 000 and 001 next[0], 010 the constant 1,
\* 011 the latched carry, 100 the current carry, 101 the current zero flag,
\* 110 the current negative flag, 111 the constant 0.
C5_NextAddressTable ==
    LET next  == nextCall.next
        sel   == 4 * Bit(nextCall.mac, 1) + 2 * Bit(nextCall.mac, 0) + (next % 2)
        carry(fl)    == fl % 2
        negative(fl) == (fl \div 2) % 2
        zero(fl)     == (fl \div 4) % 2
        bit0  == CASE sel = 0 -> 0
                   [] sel = 1 -> 1
                   [] sel = 2 -> 1
                   [] sel = 3 -> carry(nextCall.flagRegister)
                   [] sel = 4 -> carry(nextCall.falgs)
                   [] sel = 5 -> zero(nextCall.falgs)
                   [] sel = 6 -> negative(nextCall.falgs)
                   [] sel = 7 -> 0
    IN  nextCall.done => /\ nextCall.ret \div 2 = next \div 2
                         /\ nextCall.ret % 2 = bit0

\* C5 witness: selector 101 with the zero flag set and the negative flag clear
\* gave an odd address.
C5_Witness ==
    /\ nextCall.done
    /\ nextCall.mac = 2 /\ nextCall.next = 29
    /\ nextCall.falgs = 4
    /\ nextCall.ret = 29

(***************************************************************************)
(* Properties of Alu::calculate (checked under SpecAlu)                    *)
(***************************************************************************)
\* the carry, negative and zero flag the call returned, and its carry-in
Cout == aluCall.flagsOut % 2
Nout == (aluCall.flagsOut \div 2) % 2
Zout == (aluCall.flagsOut \div 4) % 2
Cin == aluCall.flagsIn % 2

\* C7: operation 0011 (ZERO) returns f = 0 with carry 0, negative 0, zero 1
\* for all a, b and carry-in.
C7_ZeroOperation ==
    (aluCall.done /\ aluCall.function = 3)
        => (aluCall.f = 0 /\ Cout = 0 /\ Nout = 0 /\ Zout = 1)

\* C8: ADD+1 (0101) yields f = (a+b+1) mod 256 with cout = NOT(a+b+1 >= 256);
\* ADCI (0111) yields f = (a+b+(1-cin)) mod 256 with
\* cout = NOT(a+b+(1-cin) >= 256).
C8_InvertedCarryAdditions ==
    LET a == aluCall.a
        b == aluCall.b
        sum == IF aluCall.function = 5 THEN a + b + 1 ELSE a + b + (1 - Cin)
    IN  (aluCall.done /\ aluCall.function \in {5, 7})
            => /\ aluCall.f = sum % 256
               /\ Cout = (IF sum >= 256 THEN 0 ELSE 1)

\* C9: ADD (0100) yields f = (a+b) mod 256 and cout = (a+b >= 256) whatever
\* the carry-in; ADC (0110) yields f = (a+b+cin) mod 256 and
\* cout = (a+b+cin >= 256); ADC with cin = 0 gives the f and the three flags
\* of ADD.
C9_PlainAdditions ==
    LET a == aluCall.a
        b == aluCall.b
        sum == IF aluCall.function = 4 THEN a + b ELSE a + b + Cin
        add == calculate(4, a, b, aluCall.flagsIn)
    IN  (aluCall.done /\ aluCall.function \in {4, 6})
            => /\ aluCall.f = sum % 256
               /\ Cout = (IF sum >= 256 THEN 1 ELSE 0)
               /\ (aluCall.function = 6 /\ Cin = 0)
                     => (aluCall.f = add.f /\ aluCall.flagsOut = add.flags)

\* C9 witness: an ADC whose carry-in makes the sum overflow (a + b = 255,
\* cin = 1) returned 0 with the carry set.
C9_Witness ==
    /\ aluCall.done /\ aluCall.function = 6
    /\ aluCall.a + aluCall.b = 255 /\ Cin = 1
    /\ aluCall.f = 0 /\ Cout = 1

\* C10: for LSR, RR, RRC and ASR cout = a[0], f[i] = a[i+1] for i in 0..6, and
\* f[7] is 0 for LSR, a[0] for RR, the carry-in for RRC and a[7] for ASR;
\* b has no influence on the result or the flags.
C10_RightShifts ==
    LET a  == aluCall.a
        fn == aluCall.function
        top == CASE fn = 8  -> 0
                 [] fn = 9  -> a % 2
                 [] fn = 10 -> Cin
                 [] fn = 11 -> a \div 128
                 [] OTHER   -> 0
    IN  (aluCall.done /\ fn \in 8 .. 11)
            => /\ Cout = a % 2
               /\ \A i \in 0 .. 6 : Bit(aluCall.f, i) = Bit(a, i + 1)
               /\ Bit(aluCall.f, 7) = top
               /\ \A b2 \in AluB :
                     calculate(fn, a, b2, aluCall.flagsIn)
                        = [f |-> aluCall.f, flags |-> aluCall.flagsOut]

\* C10 witness: an RRC with carry-in 1 on an even a: bit 7 of the result is
\* the carry-in, the carry-out is 0.
C10_Witness ==
    /\ aluCall.done /\ aluCall.function = 10
    /\ Cin = 1 /\ aluCall.a = 214
    /\ aluCall.f = 235 /\ Cout = 0

\* C11: for each of the 16 operations and all a, b, cin, after calculate the
\* negative flag is bit 7 of the returned result and the zero flag is 1
\* exactly when the returned result is 0, whatever flags[1] and flags[2] held
\* on entry.
C11_NegativeZeroFlags ==
    aluCall.done => /\ Nout = Bit(aluCall.f, 7)
                    /\ Zout = 1 <=> aluCall.f = 0
                    /\ Zout \in {0, 1}

\* C11 witness: a call entered with the negative and the zero flag set
\* returned a positive nonzero result and cleared both.
C11_Witness ==
    /\ aluCall.done
    /\ Bit(aluCall.flagsIn, 1) = 1 /\ Bit(aluCall.flagsIn, 2) = 1
    /\ aluCall.f > 0 /\ aluCall.f < 128
    /\ Nout = 0 /\ Zout = 0

\* C13: LET A (0000) returns a, LET B (0001) returns b, NOR (0010) returns
\* the bitwise complement of (a OR b), hence the complement of a when both
\* operands are a; all three clear the carry.
C13_PassThroughAndNor ==
    LET a  == aluCall.a
        b  == aluCall.b
        fn == aluCall.function
    IN  (aluCall.done /\ fn \in {0, 1, 2})
            => /\ Cout = 0
               /\ fn = 0 => aluCall.f = a
               /\ fn = 1 => aluCall.f = b
               /\ fn = 2 => \A i \in 0 .. 7 :
                               (aluCall.f \div 2 ^ i) % 2 = 1
                                  <=> ((a \div 2 ^ i) % 2 = 0 /\ (b \div 2 ^ i) % 2 = 0)
               /\ (fn = 2 /\ a = b) => aluCall.f = 255 - a

\* C13 witness: NOR of 11010100 and 00101101 returned 00000010 with the carry
\* cleared although it was set on entry.
C13_Witness ==
    /\ aluCall.done /\ aluCall.function = 2
    /\ aluCall.a = 212 /\ aluCall.b = 45 /\ Cin = 1
    /\ aluCall.f = 2 /\ Cout = 0

(***************************************************************************)
(* Properties of successive Alu::calculate calls (checked under SpecAluSeq) *)
(***************************************************************************)
\* C12: CLC (1100), SETC (1101), LETC (1110) and INVC (1111) return f = 0 with
\* cout = 0, 1, cin and 1 - cin, for all a and b; SETC, LETC, CLC, INVC
\* called one after the other on the same flags triple, starting from carry
\* 0, leave the carry at 1, 1, 0, 1.
C12_CarryOperations ==
    LET fn == aluCall.function
        n  == Len(history)
    IN  /\ (aluCall.done /\ fn \in 12 .. 15)
              => /\ aluCall.f = 0
                 /\ Cout = CASE fn = 12 -> 0
                             [] fn = 13 -> 1
                             [] fn = 14 -> Cin
                             [] fn = 15 -> 1 - Cin
                 /\ \A a2 \in AluB, b2 \in SeqB :
                       calculate(fn, a2, b2, aluCall.flagsIn)
                          = [f |-> aluCall.f, flags |-> aluCall.flagsOut]
        /\ \A i \in 1 .. n - 3 :
              (/\ history[i].function = 13 /\ history[i + 1].function = 14
               /\ history[i + 2].function = 12 /\ history[i + 3].function = 15
               /\ history[i].flagsIn % 2 = 0)
              => /\ history[i].flagsOut % 2 = 1
                 /\ history[i + 1].flagsOut % 2 = 1
                 /\ history[i + 2].flagsOut % 2 = 0
                 /\ history[i + 3].flagsOut % 2 = 1

\* C12 witness: the four calls SETC, LETC, CLC, INVC were made in this order
\* on a triple that started as 000, the last one on a = 11010110.
C12_Witness ==
    /\ Len(history) = 4
    /\ history[1].function = 13 /\ history[1].flagsIn = 0
    /\ history[2].function = 14
    /\ history[3].function = 12
    /\ history[4].function = 15 /\ history[4].flagsOut % 2 = 1
    /\ aluCall.a = 214

(***************************************************************************)
(* Properties of a microprogram run (checked under SpecProg)               *)
(***************************************************************************)
\* entry i of history is a runInstruction call
IsRun(i) == history[i].call.op = "runInstruction"
\* ... that returned
IsRunOk(i) == IsRun(i) /\ history[i].call.result = "ok"
\* ... that reached Alu::calculate
IsAluRun(i) == IsRun(i) /\ history[i].alu.done
\* the runs before entry j that returned with FL=1
Latching(j) == {i \in 1 .. j - 1 : IsRunOk(i) /\ Bit(history[i].call.value, 0) = 1}
\* the greatest element of a non-empty set of numbers
Greatest(S) == CHOOSE i \in S : \A k \in S : k <= i
\* the registers, flags and nextInstruction entry j started from
RegistersBefore(j) == IF j = 1 THEN [i \in 0 .. registerCount - 1 |-> 0]
                      ELSE history[j - 1].registers
FlagsBefore(j) == IF j = 1 THEN 0 ELSE history[j - 1].flags

\* C14: the carry handed to Alu::calculate by a run is the carry of the flag
\* register at the start of the run, which is the carry computed by the most
\* recent earlier run with FL=1 (0 if there is none), whatever runs with FL=0
\* computed in between.  ADD of 0xFF and 0x01 with FL=1 gives F=0 and leaves
\* carry=1, negative=0, zero=1; an ADC of 0 and 0 run next gives F=1 and
\* carry 0.
C14_CarryInIsLatchedCarry ==
    /\ (Ran /\ aluCall.done) => Cin = Bit(pre.flags, 0)
    /\ \A j \in 1 .. Len(history) :
          IsAluRun(j) =>
             /\ Bit(history[j].alu.flagsIn, 0) =
                   IF Latching(j) = {} THEN 0
                   ELSE Bit(history[Greatest(Latching(j))].alu.flagsOut, 0)
             /\ (/\ IsRunOk(j)
                 /\ history[j].alu.function = 4
                 /\ history[j].alu.a = 255 /\ history[j].alu.b = 1
                 /\ Bit(history[j].alu.flagsIn, 0) = 0
                 /\ Bit(history[j].call.value, 0) = 1)
                => /\ history[j].alu.f = 0
                   /\ history[j].flags = 5
                   /\ (/\ j < Len(history)
                       /\ IsAluRun(j + 1)
                       /\ history[j + 1].alu.function = 6
                       /\ history[j + 1].alu.a = 0 /\ history[j + 1].alu.b = 0)
                      => /\ history[j + 1].alu.f = 1
                         /\ Bit(history[j + 1].alu.flagsOut, 0) = 0

\* C14 witness: ADD of 0xFF and 0x01 with FL=1 was run, then an ADD with
\* FL=0 that computed carry 0, then an ADC of 0 and 0 that returned 1.
C14_Witness ==
    \E j \in 1 .. Len(history) - 2 :
        /\ IsRunOk(j) /\ history[j].alu.function = 4
        /\ history[j].alu.a = 255 /\ history[j].alu.b = 1
        /\ Bit(history[j].call.value, 0) = 1
        /\ IsRunOk(j + 1) /\ history[j + 1].alu.function = 4
        /\ Bit(history[j + 1].call.value, 0) = 0
        /\ Bit(history[j + 1].alu.flagsOut, 0) = 0
        /\ IsAluRun(j + 2) /\ history[j + 2].alu.function = 6
        /\ history[j + 2].alu.a = 0 /\ history[j + 2].alu.b = 0
        /\ history[j + 2].alu.f = 1

\* C15: when a run with FL=1 whose ADD computed carry 1 is followed by a run
\* with FL=0 whose ADD computed carry 0, and the next run is of a microword
\* with MAC=01 and NEXT=00001 whose operation computes carry 0, that run
\* leaves nextInstruction = 1.
C15_LatchedCarryBranch ==
    \A j \in 3 .. Len(history) :
        (/\ IsRunOk(j - 2) /\ history[j - 2].alu.function = 4
         /\ Bit(history[j - 2].call.value, 0) = 1
         /\ Bit(history[j - 2].alu.flagsOut, 0) = 1
         /\ IsRunOk(j - 1) /\ history[j - 1].alu.function = 4
         /\ Bit(history[j - 1].call.value, 0) = 0
         /\ Bit(history[j - 1].alu.flagsOut, 0) = 0
         /\ IsRunOk(j)
         /\ substr(2, 25, history[j].call.value, 23) = 1
         /\ substr(5, 25, history[j].call.value, 18) = 1
         /\ Bit(history[j].alu.flagsOut, 0) = 0)
        => history[j].nextInstruction = 1

\* cur is the first microword of scenario S1: BSEL=1, IMM3=0, BREG=101,
\* LET B, WR=1, WTGT=1, FL=0, MAC=00, NEXT=00001
IsLoadFive(cur) ==
    /\ Bit(cur, 5) = 1 /\ substr(4, 25, cur, 9) = 5 /\ substr(4, 25, cur, 1) = 1
    /\ Bit(cur, 7) = 1 /\ Bit(cur, 8) = 1 /\ Bit(cur, 0) = 0
    /\ Bit(cur, 6) = 0 /\ Bit(cur, 16) = 0
    /\ substr(2, 25, cur, 23) = 0 /\ substr(5, 25, cur, 18) = 1
\* cur is an ADD of two registers with WR=1, MAC=00, NEXT=00010
IsAddToRegister(cur) ==
    /\ substr(4, 25, cur, 1) = 4 /\ Bit(cur, 5) = 0 /\ Bit(cur, 6) = 0
    /\ Bit(cur, 7) = 1 /\ Bit(cur, 16) = 0
    /\ substr(2, 25, cur, 23) = 0 /\ substr(5, 25, cur, 18) = 2
\* the first two calls on the object after loading were runs of the two
\* microwords of scenario S1
RanLoadFiveThenAdd ==
    /\ Len(history) >= 2
    /\ IsRunOk(1) /\ history[1].call.pos = 0 /\ IsLoadFive(history[1].call.value)
    /\ IsRunOk(2) /\ history[2].call.pos = 1 /\ IsAddToRegister(history[2].call.value)

\* C16 as stated: after the two runs REG[1] = 5, REG[2] = 10 and
\* nextInstruction = 2.
C16_LoadAndAdd_AsStated ==
    RanLoadFiveThenAdd =>
        /\ history[2].registers[1] = 5
        /\ history[2].registers[2] = 10
        /\ history[2].nextInstruction = 2

\* C16: the first microword of scenario S1 writes 5 to REG[5] (WTGT=1 takes
\* BREG, whose bits are also the immediate) and leaves every other register
\* 0 and nextInstruction = 1; an ADD of two registers with WR=1 and
\* NEXT=00010 run next writes REG[AREG] + REG[BREG] to REG[BREG] (WTGT=1) or
\* REG[AREG] (WTGT=0) and to no other register, and leaves
\* nextInstruction = 2: REG[5] = 10 for AREG = BREG = 5, and in no case
\* REG[1] = 5 with REG[2] = 10.
C16_LoadAndAdd ==
    RanLoadFiveThenAdd =>
        LET cur    == history[2].call.value
            areg   == substr(3, 25, cur, 13)
            breg   == substr(3, 25, cur, 9)
            target == IF Bit(cur, 8) = 1 THEN breg ELSE areg
            one    == history[1].registers
            two    == history[2].registers
        IN  /\ one = [i \in 0 .. registerCount - 1 |-> IF i = 5 THEN 5 ELSE 0]
            /\ history[1].nextInstruction = 1
            /\ two = [one EXCEPT ![target] = (one[areg] + one[breg]) % 256]
            /\ history[2].nextInstruction = 2
            /\ (areg = 5 /\ breg = 5) => two[5] = 10
            /\ ~(two[1] = 5 /\ two[2] = 10)

\* C16 witness: the two microwords were run, the second with AREG = BREG =
\* 5, and REG[5] is 10 with nextInstruction = 2.
C16_Witness ==
    /\ Len(history) = 2
    /\ RanLoadFiveThenAdd
    /\ substr(3, 25, last.value, 13) = 5 /\ substr(3, 25, last.value, 9) = 5
    /\ registers[5] = 10 /\ registers[1] = 0 /\ registers[2] = 0
    /\ nextInstruction = 2

\* C17: a run of a microword with ASRC=1 that returns has BUS_EN=1 and
\* BUS_WR=0, and the a handed to Alu::calculate is ram[addr] for addr < 0xFC
\* and inputRegister[addr - 0xFC] otherwise, addr being registers[AREG] as
\* it was when the run started, also where the run writes that register.
\* With inputRegister[0] = 0x42 and registers[0] = 0xFC left by a LET B of
\* the immediate IMM3=1, BREG=100, a is 0x42.
C17_BusReadRouting ==
    (RanOk /\ Bit(last.value, 6) = 1) =>
        LET addr == pre.registers[substr(3, 25, last.value, 13)]
        IN  /\ Bit(last.value, 16) = 1 /\ Bit(last.value, 17) = 0
            /\ aluCall.done
            /\ aluCall.a = IF addr < 252 THEN pre.ram[addr]
                           ELSE pre.inputRegister[addr - 252]
            /\ (/\ addr = 252 /\ pre.inputRegister[0] = 66
                /\ \E j \in 1 .. Len(history) - 1 :
                      /\ IsRunOk(j)
                      /\ history[j].alu.function = 1
                      /\ Bit(history[j].call.value, 5) = 1
                      /\ substr(4, 25, history[j].call.value, 9) = 12)
               => aluCall.a = 66

\* C17 witness: registers[0] was loaded with 0xFC by LET B of an immediate,
\* inputRegister[0] set to 0x42, and a bus read through registers[0] with
\* WR=1, WTGT=0 returned: a was 0x42 and registers[0] is 0x42 now.
C17_Witness ==
    /\ RanOk /\ Bit(last.value, 6) = 1
    /\ substr(3, 25, last.value, 13) = 0
    /\ Len(history) = 3
    /\ IsRunOk(1) /\ history[1].alu.function = 1
    /\ substr(4, 25, history[1].call.value, 9) = 12
    /\ history[2].call.op = "setInputRegister"
    /\ pre.registers[0] = 252 /\ pre.inputRegister[0] = 66
    /\ aluCall.a = 66
    /\ registers[0] = 66

\* C18: a run of a microword with BUS_EN=1 and BUS_WR=1 that returns stores
\* the result f of Alu::calculate in ram[addr] when addr < 0xFC and in
\* outputRegister[addr - 0xFE] when addr >= 0xFE, addr being registers[AREG]
\* after the writeback, and changes no other element of ram or
\* outputRegister; a write to 0xFE leaves outputRegister[1] as it was.
C18_BusWriteRouting ==
    (RanOk /\ Bit(last.value, 16) = 1 /\ Bit(last.value, 17) = 1) =>
        LET addr == registers[substr(3, 25, last.value, 13)]
        IN  /\ aluCall.done
            /\ addr < 252 \/ addr >= 254
            /\ addr < 252 =>
                  /\ ram = [pre.ram EXCEPT ![addr] = aluCall.f]
                  /\ outputRegister = pre.outputRegister
            /\ addr >= 254 =>
                  /\ outputRegister = [pre.outputRegister EXCEPT ![addr - 254] = aluCall.f]
                  /\ ram = pre.ram
            /\ addr = 254 =>
                  /\ outputRegister[0] = aluCall.f
                  /\ outputRegister[1] = pre.outputRegister[1]

\* C18 witness: a bus write of 5 through registers[0] = 0xFF returned and
\* outputRegister[1] is 5, outputRegister[0] still 0.
C18_Witness ==
    /\ RanOk /\ Bit(last.value, 16) = 1 /\ Bit(last.value, 17) = 1
    /\ registers[substr(3, 25, last.value, 13)] = 255
    /\ aluCall.f = 5
    /\ outputRegister[1] = 5 /\ outputRegister[0] = 0
    /\ pre.outputRegister[1] = 0

\* the elements of ram entry i of history wrote, one or none: setRam(addr, v)
\* that returned writes ram[addr], a run that returned with BUS_EN=1,
\* BUS_WR=1 writes ram[registers[AREG]], registers being those after its
\* writeback, if that is below ramSize
RamWrites(i) ==
    IF history[i].call.op = "setRam" /\ history[i].call.result = "ok"
    THEN {history[i].call.pos}
    ELSE IF /\ IsRunOk(i)
            /\ Bit(history[i].call.value, 16) = 1 /\ Bit(history[i].call.value, 17) = 1
    THEN {history[i].registers[substr(3, 25, history[i].call.value, 13)]}
            \cap (0 .. ramSize - 1)
    ELSE {}
WroteRam(i, addr) == addr \in RamWrites(i)
\* the byte it wrote
WrittenByte(i) ==
    IF history[i].call.op = "setRam" THEN history[i].call.value ELSE history[i].alu.f
\* entry k of history is a run with ASRC=1 that read the bus at addr
ReadBus(k, addr) ==
    /\ IsAluRun(k)
    /\ Bit(history[k].call.value, 6) = 1
    /\ RegistersBefore(k)[substr(3, 25, history[k].call.value, 13)] = addr

\* C19: when ram[addr], addr < 0xFC, was written with v by setRam or by a
\* bus write, and nothing wrote ram[addr] since, a run with ASRC=1 whose A
\* register holds addr hands v to Alu::calculate as a; with LET A and WR=1
\* the target register holds v after the run.
C19_RamRoundTrip ==
    \A i \in 1 .. Len(history) : \A k \in i + 1 .. Len(history), addr \in RamWrites(i) :
        (/\ i < k
         /\ \A m \in i + 1 .. k - 1 : ~WroteRam(m, addr)
         /\ ReadBus(k, addr))
        => LET cur    == history[k].call.value
               target == IF Bit(cur, 8) = 1 THEN substr(3, 25, cur, 9)
                         ELSE substr(3, 25, cur, 13)
           IN  /\ history[k].alu.a = WrittenByte(i)
               /\ (history[k].alu.function = 0 /\ Bit(cur, 7) = 1)
                  => history[k].registers[target] = WrittenByte(i)

\* C19 witness: a bus write stored 5 in ram[0xFB] and the next run, LET A
\* through the bus with WR=1, WTGT=1, BREG=1, left 5 in registers[1].
C19_Witness ==
    \E k \in 2 .. Len(history) :
        /\ IsRunOk(k - 1) /\ WroteRam(k - 1, 251) /\ WrittenByte(k - 1) = 5
        /\ IsRunOk(k) /\ ReadBus(k, 251)
        /\ history[k].alu.function = 0 /\ history[k].alu.a = 5
        /\ Bit(history[k].call.value, 7) = 1 /\ Bit(history[k].call.value, 8) = 1
        /\ history[k].registers[1] = 5 /\ history[k - 1].registers[1] = 0
        /\ ram[251] = 5

\* C20: a run of a microword with WR=0, BUS_EN=0 and FL=0 leaves ram,
\* instructionRam, registers, inputRegister, outputRegister and flags as
\* they were; it throws exactly when ASRC=1, and then nextInstruction is as
\* it was too.
C20_NullEffectMicroword ==
    (/\ Ran
     /\ Bit(last.value, 7) = 0 /\ Bit(last.value, 16) = 0 /\ Bit(last.value, 0) = 0)
    => /\ ram = pre.ram
       /\ instructionRam = pre.instructionRam
       /\ registers = pre.registers
       /\ inputRegister = pre.inputRegister
       /\ outputRegister = pre.outputRegister
       /\ flags = pre.flags
       /\ Faulted <=> Bit(last.value, 6) = 1
       /\ Faulted => nextInstruction = pre.nextInstruction

\* C20 witness: SETC with WR=0, BUS_EN=0, BUS_WR=1, FL=0 was run on a
\* machine whose registers[0] is not 0: the call computed carry 1, the flag
\* register still has carry 0, and nextInstruction moved.
C20_Witness ==
    /\ RanOk
    /\ Bit(last.value, 7) = 0 /\ Bit(last.value, 16) = 0 /\ Bit(last.value, 0) = 0
    /\ Bit(last.value, 17) = 1
    /\ aluCall.function = 13 /\ Bit(aluCall.flagsOut, 0) = 1
    /\ Bit(flags, 0) = 0
    /\ registers[0] # 0
    /\ nextInstruction # pre.nextInstruction

(***************************************************************************)
(* Properties of the accessors (checked under SpecAccess)                  *)
(***************************************************************************)
Getters == {"getInstruction", "getRam", "getRegister", "getInputRegister",
            "getOutputRegister"}
Setters == {"setInstruction", "setRam", "setInputRegister"}
\* the size of the array an accessor indexes, and the array as it is now
SizeOf(op) ==
    CASE op \in {"getInstruction", "setInstruction"} -> instructionRamSize
      [] op \in {"getRam", "setRam"} -> ramSize
      [] op = "getRegister" -> registerCount
      [] op \in {"getInputRegister", "setInputRegister"} -> inputRegisterCount
      [] op = "getOutputRegister" -> outputRegisterCount
ArrayOf(op) ==
    CASE op \in {"getInstruction", "setInstruction"} -> instructionRam
      [] op \in {"getRam", "setRam"} -> ram
      [] op = "getRegister" -> registers
      [] op \in {"getInputRegister", "setInputRegister"} -> inputRegister
      [] op = "getOutputRegister" -> outputRegister
\* the getter that reads what a setter writes
GetterOf(op) ==
    CASE op = "setInstruction" -> "getInstruction"
      [] op = "setRam" -> "getRam"
      [] op = "setInputRegister" -> "getInputRegister"

\* C21: a call of getInstruction/setInstruction, getRam/setRam, getRegister,
\* getInputRegister/setInputRegister or getOutputRegister throws
\* out_of_range exactly when position is not below the size of its array
\* (32, 252, 8, 4, 2), and then every member is as before the call; a getter
\* that returns changes nothing and returns the element at position; a
\* setter that returns changes that element to value and nothing else; a
\* getter called right after the matching setter on the same position
\* returns the value set.
C21_AccessorBounds ==
    /\ last.op \in Getters \cup Setters =>
          /\ last.result = "out_of_range" <=> last.pos >= SizeOf(last.op)
          /\ last.result = "ok" <=> last.pos < SizeOf(last.op)
          /\ last.result = "out_of_range" => Snapshot = pre
    /\ (last.op \in Getters /\ last.result = "ok") =>
          /\ Snapshot = pre
          /\ last.ret = ArrayOf(last.op)[last.pos]
    /\ (last.op \in Setters /\ last.result = "ok") =>
          /\ ArrayOf(last.op)[last.pos] = last.value
          /\ Snapshot =
                CASE last.op = "setInstruction" ->
                        [pre EXCEPT !.instructionRam[last.pos] = last.value]
                  [] last.op = "setRam" ->
                        [pre EXCEPT !.ram[last.pos] = last.value]
                  [] last.op = "setInputRegister" ->
                        [pre EXCEPT !.inputRegister[last.pos] = last.value]
    /\ \A k \in 2 .. Len(history) :
          LET set == history[k - 1].call
              get == history[k].call
          IN  (/\ set.op \in Setters /\ set.result = "ok"
               /\ get.op = GetterOf(set.op) /\ get.pos = set.pos)
              => get.result = "ok" /\ get.ret = set.value

\* C21 witness: setRam(251, 0x42), then getRam(251) returned 0x42, then
\* getRam(252) threw out_of_range.
C21_Witness ==
    /\ Len(history) = 3
    /\ history[1].call = Call("setRam", ramSize - 1, 66, "ok", 0)
    /\ history[2].call = Call("getRam", ramSize - 1, 0, "ok", 66)
    /\ last = Call("getRam", ramSize, 0, "out_of_range", 0)
    /\ ram[ramSize - 1] = 66

\* C22: registers and outputRegister differ from what they were before the
\* last call only if that call was runInstruction.
C22_NoExternalWrites ==
    ~Ran => /\ registers = pre.registers
            /\ outputRegister = pre.outputRegister

(***************************************************************************)
(* Further properties of runInstruction (checked under Spec)               *)
(***************************************************************************)
\* the last call ran a microword with WR=1, BUS_EN=1, BUS_WR=1 whose
\* writeback target is its A register
WroteBackToAddressRegister ==
    /\ Ran /\ aluCall.done
    /\ Bit(last.value, 7) = 1
    /\ Bit(last.value, 16) = 1 /\ Bit(last.value, 17) = 1
    /\ \/ Bit(last.value, 8) = 0
       \/ substr(3, 25, last.value, 9) = substr(3, 25, last.value, 13)

\* C23: a run of a microword with WR=1, BUS_EN=1, BUS_WR=1 whose writeback
\* target is its A register takes the result f, which the A register holds
\* by then, as the bus address: it returns exactly when f is not 0xFC or
\* 0xFD, and then f is stored in ram[f] for f < 0xFC and in
\* outputRegister[f - 0xFE] for f >= 0xFE, and nothing is stored at the
\* address the register held before the run.
C23_WritebackBeforeBusWrite ==
    WroteBackToAddressRegister =>
        LET areg == substr(3, 25, last.value, 13)
            f    == aluCall.f
        IN  /\ registers[areg] = f
            /\ RanOk <=> f \notin {252, 253}
            /\ (RanOk /\ f < 252) =>
                  /\ ram = [pre.ram EXCEPT ![f] = f]
                  /\ outputRegister = pre.outputRegister
            /\ (RanOk /\ f >= 254) =>
                  /\ outputRegister = [pre.outputRegister EXCEPT ![f - 254] = f]
                  /\ ram = pre.ram

\* C23 witness: on the zeroed machine LET B of the immediate 0xFE with WR=1,
\* WTGT=0, AREG=0 and a bus write was run: registers[0] and
\* outputRegister[0] are 0xFE, outputRegister[1] and ram[0] still 0.
C23_Witness ==
    /\ WroteBackToAddressRegister /\ RanOk
    /\ pre.registers[0] = 0 /\ substr(3, 25, last.value, 13) = 0
    /\ aluCall.f = 254
    /\ registers[0] = 254
    /\ outputRegister[0] = 254 /\ outputRegister[1] = 0
    /\ ram[0] = 0

\* the two's-complement value of the 4-bit number n, as a byte
SignExtend4(n) == IF n >= 8 THEN n + 240 ELSE n

\* C24: in a run of a microword with BSEL=1 the b handed to Alu::calculate is
\* BREG when IMM3=0 and 0xF8 + BREG when IMM3=1, which is the sign extension
\* of the 4-bit number IMM3:BREG, whatever the registers hold.
C24_ImmediateOperand ==
    (Ran /\ aluCall.done /\ Bit(last.value, 5) = 1) =>
        LET breg == substr(3, 25, last.value, 9)
            imm3 == Bit(last.value, 12)
        IN  /\ imm3 = 0 => aluCall.b = breg /\ aluCall.b \in 0 .. 7
            /\ imm3 = 1 => aluCall.b = 248 + breg /\ aluCall.b \in 248 .. 255
            /\ aluCall.b = SignExtend4(8 * imm3 + breg)

\* C24 witness: with 0xFB in registers[0], a microword with BSEL=1, IMM3=1,
\* BREG=000 was run and b was 0xF8.
C24_Witness ==
    /\ Ran /\ aluCall.done /\ Bit(last.value, 5) = 1
    /\ Bit(last.value, 12) = 1 /\ substr(3, 25, last.value, 9) = 0
    /\ pre.registers[0] = 251
    /\ aluCall.b = 248

\* the positions where two arrays over the same positions differ
Changed(old, new) == {i \in DOMAIN old : old[i] # new[i]}

\* C25: a run that returns leaves instructionRam and inputRegister as they
\* were; with WR=0 it leaves registers as they were, with WR=1 registers is
\* as before except that registers[BREG] (WTGT=1) or registers[AREG]
\* (WTGT=0) is the result f; ram and outputRegister are as they were unless
\* BUS_EN=1 and BUS_WR=1, and then they differ in at most one element
\* together; a run with ASRC=1 leaves ram and outputRegister as they were.
C25_StepFrame ==
    RanOk =>
        LET cur    == last.value
            target == IF Bit(cur, 8) = 1 THEN substr(3, 25, cur, 9)
                      ELSE substr(3, 25, cur, 13)
            buswr  == Bit(cur, 16) = 1 /\ Bit(cur, 17) = 1
        IN  /\ instructionRam = pre.instructionRam
            /\ inputRegister = pre.inputRegister
            /\ Bit(cur, 7) = 0 => registers = pre.registers
            /\ Bit(cur, 7) = 1 => registers = [pre.registers EXCEPT ![target] = aluCall.f]
            /\ Cardinality(Changed(pre.registers, registers)) <= 1
            /\ ~buswr => ram = pre.ram /\ outputRegister = pre.outputRegister
            /\ buswr => Cardinality(Changed(pre.ram, ram))
                           + Cardinality(Changed(pre.outputRegister, outputRegister)) <= 1
            /\ Bit(cur, 6) = 1 => ram = pre.ram /\ outputRegister = pre.outputRegister

\* C25 witness: with 0xFB in registers[0], LET B of the immediate 3 with
\* WR=1, WTGT=1, AREG=0 and a bus write was run: registers[3] and ram[0xFB]
\* are 3, nothing else changed.
C25_Witness ==
    /\ RanOk
    /\ Bit(last.value, 7) = 1 /\ Bit(last.value, 8) = 1
    /\ Bit(last.value, 16) = 1 /\ Bit(last.value, 17) = 1
    /\ pre.registers[0] = 251 /\ pre.registers[3] = 0 /\ pre.ram[251] = 0
    /\ aluCall.f = 3
    /\ registers[3] = 3 /\ registers[0] = 251
    /\ ram[251] = 3
    /\ outputRegister = pre.outputRegister

\* every member holds values of its bitset type on the positions of its array
TypeOK ==
    /\ ram \in [0 .. ramSize - 1 -> 0 .. 255]
    /\ instructionRam \in [0 .. instructionRamSize - 1 -> 0 .. 33554431]
    /\ registers \in [0 .. registerCount - 1 -> 0 .. 255]
    /\ inputRegister \in [0 .. inputRegisterCount - 1 -> 0 .. 255]
    /\ outputRegister \in [0 .. outputRegisterCount - 1 -> 0 .. 255]
    /\ flags \in 0 .. 7
    /\ nextInstruction \in 0 .. 31

\* C26: the members hold values of their types, nextInstruction is in 0..31,
\* and for the microword runInstruction would run now every index it would
\* use is inside its array: AREG and BREG in 0..7; on a bus read the address
\* registers[AREG] indexes ram if below 252 and inputRegister, less 252, in
\* 0..3 otherwise; on a bus write the address registers[AREG] after the
\* writeback is 0xFC or 0xFD (the method throws), or indexes ram if below
\* 252, or outputRegister, less 254, in 0..1.
C26_IndexSafety ==
    /\ TypeOK
    /\ LET cur  == instructionRam[nextInstruction]
           areg == substr(3, 25, cur, 13)
           breg == substr(3, 25, cur, 9)
           ra   == ReadA(cur, registers, ram, inputRegister)
       IN  /\ nextInstruction \in DOMAIN instructionRam
           /\ areg \in DOMAIN registers /\ breg \in DOMAIN registers
           /\ (Bit(cur, 6) = 1 /\ ~ra.fault) =>
                 IF registers[areg] >= ramSize
                 THEN registers[areg] - ramSize \in DOMAIN inputRegister
                 ELSE registers[areg] \in DOMAIN ram
           /\ (~ra.fault /\ Bit(cur, 16) = 1 /\ Bit(cur, 17) = 1) =>
                 LET r       == calculate(substr(4, 25, cur, 1), ra.a, ReadB(cur, registers),
                                          CopyFlags(flags))
                     address == WriteBack(cur, registers, r.f)[areg]
                 IN  \/ address \in {252, 253}
                     \/ address >= 254 /\ address - 254 \in DOMAIN outputRegister
                     \/ address < 252 /\ address \in DOMAIN ram

\* C26 witness: a bus write through registers[0] = 0xFF stored in
\* outputRegister[1], the last element, and nextInstruction is 2.
C26_Witness ==
    /\ RanOk
    /\ Bit(last.value, 16) = 1 /\ Bit(last.value, 17) = 1
    /\ substr(3, 25, last.value, 13) = 0
    /\ registers[0] = 255
    /\ aluCall.f # 0 /\ outputRegister[1] = aluCall.f
    /\ nextInstruction = 2

\* the members of a freshly constructed object
Fresh ==
    [ram |-> [i \in 0 .. ramSize - 1 |-> 0],
     instructionRam |-> [i \in 0 .. instructionRamSize - 1 |-> 0],
     registers |-> [i \in 0 .. registerCount - 1 |-> 0],
     inputRegister |-> [i \in 0 .. inputRegisterCount - 1 |-> 0],
     outputRegister |-> [i \in 0 .. outputRegisterCount - 1 |-> 0],
     flags |-> 0, nextInstruction |-> 0]

\* C27: as long as no microword was entered and no setter called, the
\* members are those of a freshly constructed object (all zero), however
\* many runs were made; and a run of the all-zero microword, at whatever
\* position, returns, leaves every member but nextInstruction as it was and
\* leaves nextInstruction = 0.
C27_IdleMachine ==
    /\ (nSet = 0 /\ nPoke = 0) => Snapshot = Fresh
    /\ (Ran /\ last.value = 0) =>
          /\ RanOk
          /\ Snapshot = [pre EXCEPT !.nextInstruction = 0]

\* C27 witness: a one-word program left 0xFB..0xFF in registers[0] and
\* nextInstruction = 1; the all-zero microword at position 1 was run and
\* nextInstruction is 0 again.
C27_Witness ==
    /\ RanOk /\ last.value = 0 /\ last.pos = 1
    /\ pre.nextInstruction = 1 /\ nextInstruction = 0
    /\ registers[0] >= 251
    /\ nRun = 2

====
